---- MODULE Spec2Model ----
(***************************************************************************)
(* A model of the HyC-LoRA compute kernels and evaluation harness:         *)
(*   - operators/rmsnorm_kernels.py  (fused RMS-norm forward and backward) *)
(*   - models/utils/compute_utils.py (head reshapes, LoRA, repeat_kv)      *)
(*   - utils/math_10k/compute_metrics.py (answer extraction and scoring)   *)
(*                                                                         *)
(* float32 arithmetic is modelled over the integers: + - * are exact, the  *)
(* float division a / b is the integer quotient a \div b, and 1 / sqrt(v)  *)
(* is taken in fixed point (see Rsqrt).  Memory returned by torch.empty    *)
(* holds the value `junk`, drawn in the initial state.                     *)
(***************************************************************************)
EXTENDS Integers, Sequences, FiniteSets, TLC

\* ------------------------------------------------------------------ bounds
\* Largest number of rows M of the (M, N) input of the backward kernel.
MaxM == 3
\* Largest number of lock groups GROUP_SIZE_M the backward kernel is run with.
MaxG == 2
\* Largest size of a tensor dimension of the reshape, repeat and LoRA helpers.
MaxDim == 2
\* Longest decoded generation, in characters.
MaxLen == 3

\* Row widths N the normalization kernels are run with.
Widths == {1, 2, 3}
\* Contents a freshly allocated (torch.empty) buffer may hold.
Garbage == {0, 5}
\* The eps argument of the normalization.
EpsSet == {1}

VARIABLES
    \* ---- rmsnorm_backward / _rms_norm_bwd_dx_fused
    M,          \* number of rows (programs of the launch grid)
    N,          \* number of columns
    G,          \* GROUP_SIZE_M
    junk,       \* what uninitialised memory holds
    X,          \* input rows             [0..M-1 -> [0..N-1 -> Int]]
    DY,         \* output gradient rows   [0..M-1 -> [0..N-1 -> Int]]
    W,          \* weight                 [0..N-1 -> Int]
    Rstd,       \* saved 1/std per row    [0..M-1 -> Int]
    DX,         \* input gradient rows    [0..M-1 -> [0..N-1 -> Int]]
    DW,         \* _dw, the per-group partial sums [0..G-1 -> [0..N-1 -> Int]]
    Lock,       \* locks: Lock[0..G-1] the locks, Lock[G..2G-1] the counts
    pc,         \* where each program (row) is
    partial_dw, \* each program's register partial_dw
    count       \* each program's register count

VARIABLES
    \* ---- rmsnorm_forward / _rms_norm_fwd_fused
    fM,         \* number of rows of x_arg
    fN,         \* number of columns of x_arg
    fElem,      \* x.element_size()
    fEps,       \* eps
    fJunk,      \* what uninitialised memory holds
    fX,         \* x_arg                 [0..fM-1 -> [0..fN-1 -> Int]]
    fW,         \* weight                [0..fN-1 -> Int]
    fY,         \* y                     [0..fM-1 -> [0..fN-1 -> Int]]
    fRstd,      \* rstd                  [0..fM-1 -> Int]
    fBLOCK,     \* BLOCK_SIZE
    fpc,        \* "entry", "launched", "raised" or "returned"
    frow        \* per program of the grid: "idle" or "done"

VARIABLES
    \* ---- hidden_to_head_shape / head_to_hidden_shape
    hx,         \* the (bsz, seq_len, hidden_dim) input
    hheads,     \* num_heads
    hmid,       \* hidden_to_head_shape(hx, hheads)
    hout,       \* head_to_hidden_shape(hmid)
    hpc         \* "input", "head", "hidden" or "error"

VARIABLES
    \* ---- repeat_kv / repeat_kv_backward
    kx,         \* hidden_states, (batch, num_key_value_heads, slen, head_dim)
    kn,         \* n_rep
    kg,         \* an upstream gradient, (batch, num_key_value_heads * n_rep, slen, head_dim)
    kexp,       \* repeat_kv(kx, kn)
    kadj,       \* repeat_kv_backward(kexp, kn)
    kgrad,      \* repeat_kv_backward(kg, kn)
    kpc         \* "input", "expanded", "adjoint" or "grad"

VARIABLES
    \* ---- lora_forward / lora_backward (tensors by their shapes)
    lw,         \* shape of the dequantized w, (out_features, in_features)
    lA,         \* shape of w_lora_a, (in_features, rank)
    lB,         \* shape of w_lora_b, (rank, out_features)
    lx,         \* shape of x, (..., in_features)
    lgy,        \* shape of grad_y, (..., out_features)
    lfwd,       \* what lora_forward returned: shapes of (x, x_main, x_lora_a)
    lbwd,       \* what lora_backward returned: shapes of (grad_A, grad_B, grad_x)
    lpc         \* "input", "forward" or "backward"

VARIABLES
    \* ---- compute_metrics
    task,           \* the task argument
    pred,           \* the decoded generation being scored
    answer,         \* example["answer"] of the example being scored
    correct_count,
    total_count,
    generations,    \* the records appended so far
    trigger,        \* the trigger_tokens argument
    todo,           \* ids the dataloader has still to yield
    epc             \* "loop", "raised" or "returned"

bwdVars == <<M, N, G, junk, X, DY, W, Rstd, DX, DW, Lock, pc, partial_dw, count>>
fwdVars == <<fM, fN, fElem, fEps, fJunk, fX, fW, fY, fRstd, fBLOCK, fpc, frow>>
headVars == <<hx, hheads, hmid, hout, hpc>>
kvVars == <<kx, kn, kg, kexp, kadj, kgrad, kpc>>
loraVars == <<lw, lA, lB, lx, lgy, lfwd, lbwd, lpc>>
evalVars == <<task, trigger, pred, answer, correct_count, total_count, generations, todo, epc>>

vars == <<bwdVars, fwdVars, headVars, kvVars, loraVars, evalVars>>

\* A component that is not running: its variables hold nothing.
BwdOff ==
    /\ M = 0 /\ N = 0 /\ G = 0 /\ junk = 0 /\ X = <<>> /\ DY = <<>> /\ W = <<>>
    /\ Rstd = <<>> /\ DX = <<>> /\ DW = <<>> /\ Lock = <<>> /\ pc = <<>>
    /\ partial_dw = <<>> /\ count = <<>>
FwdOff ==
    /\ fM = 0 /\ fN = 0 /\ fElem = 0 /\ fEps = 0 /\ fJunk = 0 /\ fX = <<>> /\ fW = <<>>
    /\ fY = <<>> /\ fRstd = <<>> /\ fBLOCK = 0 /\ fpc = "off" /\ frow = <<>>
HeadOff == hx = <<>> /\ hheads = 0 /\ hmid = <<>> /\ hout = <<>> /\ hpc = "off"
KvOff ==
    /\ kx = <<>> /\ kn = 0 /\ kg = <<>> /\ kexp = <<>> /\ kadj = <<>> /\ kgrad = <<>>
    /\ kpc = "off"
LoraOff ==
    /\ lw = <<>> /\ lA = <<>> /\ lB = <<>> /\ lx = <<>> /\ lgy = <<>> /\ lfwd = <<>>
    /\ lbwd = <<>> /\ lpc = "off"
EvalOff ==
    /\ task = "" /\ trigger = <<>> /\ pred = <<>> /\ answer = <<>> /\ correct_count = 0
    /\ total_count = 0
    /\ generations = <<>> /\ todo = {} /\ epc = "off"

\* ------------------------------------------------------------- arithmetic
RECURSIVE SumRange(_, _, _)
\* v[lo] + ... + v[hi - 1], as a tree reduction.
SumRange(v, lo, hi) ==
    IF hi <= lo THEN 0
    ELSE IF hi = lo + 1 THEN v[lo]
    ELSE LET mid == (lo + hi) \div 2 IN SumRange(v, lo, mid) + SumRange(v, mid, hi)
\* tl.sum(v, axis=0) over the lanes 0 .. n-1 of v.
SumTo(v, n) == SumRange(v, 0, n)

\* triton.next_power_of_2(n), n >= 1.
RECURSIVE Pow2From(_, _)
Pow2From(p, n) == IF p >= n THEN p ELSE Pow2From(2 * p, n)
NextPowerOf2(n) == Pow2From(1, n)

\* tl.sqrt, rounded down.
ISqrt(v) == CHOOSE s \in 0..v : s * s <= v /\ (s + 1) * (s + 1) > v

\* 1 / tl.sqrt(v) in fixed point, in sixths.
Rsqrt(v) == 6 \div ISqrt(v)

\* The lanes of a block and the mask cols < N.
Lanes(B) == 0..(B - 1)
MaskedLoad(row, n, B, other) == [c \in Lanes(B) |-> IF c < n THEN row[c] ELSE other]

\* ---------------------------------------------------- _rms_norm_fwd_fused
\* Lines 34-39: lane `lane` of _var after the loop over the column chunks
\* off = 0, B, 2B, ... < n:  _var += x * x  with x masked by cols < n.
RECURSIVE VarLane(_, _, _, _, _)
VarLane(row, n, B, lane, off) ==
    IF off >= n THEN 0
    ELSE (IF off + lane < n THEN row[off + lane] * row[off + lane] ELSE 0)
             + VarLane(row, n, B, lane, off + B)

\* Lines 40-41: var = tl.sum(_var, axis=0) / N ; rstd = 1 / tl.sqrt(var + eps)
RowRstd(row, n, eps, B) ==
    LET var == SumTo([lane \in Lanes(B) |-> VarLane(row, n, B, lane, 0)], B) \div n
    IN  Rsqrt(var + eps)

\* Lines 46-54: the loop over the column chunks storing y = (x * rstd) * w
\* under the mask cols < n, chunk by chunk from offset `off`.
RECURSIVE StoreChunks(_, _, _, _, _, _, _)
StoreChunks(yrow, row, w, rstd, n, B, off) ==
    IF off >= n THEN yrow
    ELSE StoreChunks([c \in DOMAIN yrow |->
                         IF c >= off /\ c < off + B /\ c < n
                         THEN (row[c] * rstd) * w[c] ELSE yrow[c]],
                     row, w, rstd, n, B, off + B)

\* ------------------------------------------------- _rms_norm_bwd_dx_fused
Rows == 0..(M - 1)
Cols == 0..(N - 1)
BLOCK_SIZE_N == NextPowerOf2(N)

\* lock_id = row % GROUP_SIZE_M ; Count = Lock + GROUP_SIZE_M
LockId(row) == row % G
CountId(row) == LockId(row) + G

\* xhat = where(mask, x * rstd, 0)
Xhat(xrow, rstd, n, B) ==
    LET x == MaskedLoad(xrow, n, B, 0)
    IN  [c \in Lanes(B) |-> IF c < n THEN x[c] * rstd ELSE 0]

\* wdy = where(mask, w * dy, 0); the masked lanes of w are loaded without
\* `other` and hold whatever the load leaves there.
Wdy(w, dyrow, n, B, undef) ==
    LET wv == MaskedLoad(w, n, B, undef)
        dy == MaskedLoad(dyrow, n, B, 0)
    IN  [c \in Lanes(B) |-> IF c < n THEN wv[c] * dy[c] ELSE 0]

\* dx = (wdy - (xhat * c1 + c2)) * rstd, on the lanes the store keeps.
DxRow(xrow, dyrow, w, rstd, n, B, undef) ==
    LET xhat == Xhat(xrow, rstd, n, B)
        wdy  == Wdy(w, dyrow, n, B, undef)
        c1   == SumTo([c \in Lanes(B) |-> xhat[c] * wdy[c]], B) \div n
        c2   == SumTo(wdy, B) \div n
    IN  [c \in 0..(n - 1) |-> (wdy[c] - (xhat[c] * c1 + c2)) * rstd]

\* partial_dw = dy * xhat, over the whole block.
DwRow(xrow, dyrow, rstd, n, B) ==
    LET xhat == Xhat(xrow, rstd, n, B)
        dy   == MaskedLoad(dyrow, n, B, 0)
    IN  [c \in Lanes(B) |-> dy[c] * xhat[c]]

\* StoreDX with DX offset by the lock group instead of by the row.
StoreDXByGroup(r) ==
    /\ pc[r] = "start"
    /\ DX' = [DX EXCEPT ![LockId(r)] = DxRow(X[r], DY[r], W, Rstd[r], N, BLOCK_SIZE_N, junk)]
    /\ partial_dw' = [partial_dw EXCEPT ![r] = DwRow(X[r], DY[r], Rstd[r], N, BLOCK_SIZE_N)]
    /\ pc' = [pc EXCEPT ![r] = "cas"]
    /\ UNCHANGED <<fwdVars, headVars, kvVars, loraVars, evalVars>>
    /\ UNCHANGED <<M, N, G, junk, X, DY, W, Rstd, DW, Lock, count>>

\* Lines 86-102: load the row, compute and store dx, compute partial_dw.
StoreDX(r) ==
    /\ pc[r] = "start"
    /\ DX' = [DX EXCEPT ![r] = DxRow(X[r], DY[r], W, Rstd[r], N, BLOCK_SIZE_N, junk)]
    /\ partial_dw' = [partial_dw EXCEPT ![r] = DwRow(X[r], DY[r], Rstd[r], N, BLOCK_SIZE_N)]
    /\ pc' = [pc EXCEPT ![r] = "cas"]
    /\ UNCHANGED <<fwdVars, headVars, kvVars, loraVars, evalVars>>
    /\ UNCHANGED <<M, N, G, junk, X, DY, W, Rstd, DW, Lock, count>>

\* CasAcquire with an exchange in place of the compare-and-swap: the old value
\* of the lock is not looked at.
CasAcquireUnchecked(r) ==
    /\ pc[r] = "cas"
    /\ Lock' = [Lock EXCEPT ![LockId(r)] = 1]
    /\ pc' = [pc EXCEPT ![r] = "load_count"]
    /\ UNCHANGED <<fwdVars, headVars, kvVars, loraVars, evalVars>>
    /\ UNCHANGED <<M, N, G, junk, X, DY, W, Rstd, DX, DW, partial_dw, count>>

\* Line 103: tl.atomic_cas(Lock, 0, 1) returns 0: the lock is taken.
CasAcquire(r) ==
    /\ pc[r] = "cas"
    /\ Lock[LockId(r)] = 0
    /\ Lock' = [Lock EXCEPT ![LockId(r)] = 1]
    /\ pc' = [pc EXCEPT ![r] = "load_count"]
    /\ UNCHANGED <<fwdVars, headVars, kvVars, loraVars, evalVars>>
    /\ UNCHANGED <<M, N, G, junk, X, DY, W, Rstd, DX, DW, partial_dw, count>>

\* Lines 103-104: tl.atomic_cas(Lock, 0, 1) returns 1: spin.
CasSpin(r) ==
    /\ pc[r] = "cas"
    /\ Lock[LockId(r)] = 1
    /\ UNCHANGED bwdVars
    /\ UNCHANGED <<fwdVars, headVars, kvVars, loraVars, evalVars>>

\* Line 105: count = tl.load(Count)
LoadCount(r) ==
    /\ pc[r] = "load_count"
    /\ count' = [count EXCEPT ![r] = Lock[CountId(r)]]
    /\ pc' = [pc EXCEPT ![r] = "branch"]
    /\ UNCHANGED <<fwdVars, headVars, kvVars, loraVars, evalVars>>
    /\ UNCHANGED <<M, N, G, junk, X, DY, W, Rstd, DX, DW, Lock, partial_dw>>

\* XchgCount without the exchange: the first-writer flag is never raised.
XchgCountSkipped(r) ==
    /\ pc[r] = "branch"
    /\ count[r] = 0
    /\ pc' = [pc EXCEPT ![r] = "store_dw"]
    /\ UNCHANGED <<fwdVars, headVars, kvVars, loraVars, evalVars>>
    /\ UNCHANGED <<M, N, G, junk, X, DY, W, Rstd, DX, DW, Lock, partial_dw, count>>

\* Lines 107-108: the first store does not accumulate; tl.atomic_xchg(Count, 1)
XchgCount(r) ==
    /\ pc[r] = "branch"
    /\ count[r] = 0
    /\ Lock' = [Lock EXCEPT ![CountId(r)] = 1]
    /\ pc' = [pc EXCEPT ![r] = "store_dw"]
    /\ UNCHANGED <<fwdVars, headVars, kvVars, loraVars, evalVars>>
    /\ UNCHANGED <<M, N, G, junk, X, DY, W, Rstd, DX, DW, partial_dw, count>>

\* Lines 109-110: partial_dw += tl.load(DW, mask=mask)
LoadDW(r) ==
    /\ pc[r] = "branch"
    /\ count[r] # 0
    /\ partial_dw' = [partial_dw EXCEPT ![r] =
           [c \in Lanes(BLOCK_SIZE_N) |->
               partial_dw[r][c] + MaskedLoad(DW[LockId(r)], N, BLOCK_SIZE_N, junk)[c]]]
    /\ pc' = [pc EXCEPT ![r] = "store_dw"]
    /\ UNCHANGED <<fwdVars, headVars, kvVars, loraVars, evalVars>>
    /\ UNCHANGED <<M, N, G, junk, X, DY, W, Rstd, DX, DW, Lock, count>>

\* Line 111: tl.store(DW, partial_dw, mask=mask)
StoreDW(r) ==
    /\ pc[r] = "store_dw"
    /\ DW' = [DW EXCEPT ![LockId(r)] = [c \in Cols |-> partial_dw[r][c]]]
    /\ pc' = [pc EXCEPT ![r] = "release"]
    /\ UNCHANGED <<fwdVars, headVars, kvVars, loraVars, evalVars>>
    /\ UNCHANGED <<M, N, G, junk, X, DY, W, Rstd, DX, Lock, partial_dw, count>>

\* Release without the exchange: the program ends holding the lock.
ReleaseKeepLock(r) ==
    /\ pc[r] = "release"
    /\ pc' = [pc EXCEPT ![r] = "done"]
    /\ UNCHANGED <<fwdVars, headVars, kvVars, loraVars, evalVars>>
    /\ UNCHANGED <<M, N, G, junk, X, DY, W, Rstd, DX, DW, Lock, partial_dw, count>>

\* Line 113: tl.atomic_xchg(Lock, 0)
Release(r) ==
    /\ pc[r] = "release"
    /\ Lock' = [Lock EXCEPT ![LockId(r)] = 0]
    /\ pc' = [pc EXCEPT ![r] = "done"]
    /\ UNCHANGED <<fwdVars, headVars, kvVars, loraVars, evalVars>>
    /\ UNCHANGED <<M, N, G, junk, X, DY, W, Rstd, DX, DW, partial_dw, count>>

\* One step of program `r` of the launch grid (M,).
Program(r) ==
    /\ r \in Rows
    /\ \/ StoreDX(r)
       \/ CasAcquire(r)
       \/ CasSpin(r)
       \/ LoadCount(r)
       \/ XchgCount(r)
       \/ LoadDW(r)
       \/ StoreDW(r)
       \/ Release(r)

\* Input rows: each row's (x, dy) is one of two patterns.
XRow(k, n) == [c \in 0..(n - 1) |-> 1 + ((c + k) % 2)]
DYRow(k, n) == [c \in 0..(n - 1) |-> 1 + k + c]
WRows(n) == { [c \in 0..(n - 1) |-> 1 + ((c + k) % 3)] : k \in {0, 1} }

\* rmsnorm_backward up to the launch: locks zeroed, _dw and dx uninitialised,
\* rstd as rmsnorm_forward saved it.
BwdInit ==
    /\ M \in 1..MaxM
    /\ N \in Widths
    /\ G \in 1..MaxG
    /\ junk \in Garbage
    /\ \E k \in {0, 1} :
          /\ X = [r \in 0..(M - 1) |-> XRow((r + k) % 2, N)]
          /\ DY = [r \in 0..(M - 1) |-> DYRow((r + k) % 2, N)]
    /\ W \in WRows(N)
    /\ \E eps \in EpsSet :
          Rstd = [r \in 0..(M - 1) |-> RowRstd(X[r], N, eps, NextPowerOf2(N))]
    /\ DX = [r \in 0..(M - 1) |-> [c \in 0..(N - 1) |-> junk]]
    /\ DW = [g \in 0..(G - 1) |-> [c \in 0..(N - 1) |-> junk]]
    /\ Lock = [i \in 0..(2 * G - 1) |-> 0]
    /\ pc = [r \in 0..(M - 1) |-> "start"]
    /\ partial_dw = [r \in 0..(M - 1) |-> [c \in Lanes(NextPowerOf2(N)) |-> 0]]
    /\ count = [r \in 0..(M - 1) |-> 0]

\* The launch _rms_norm_bwd_dx_fused[(M,)]: the programs run concurrently.
BwdNext ==
    \/ \E r \in Rows : StoreDX(r)
    \/ \E r \in Rows : CasAcquire(r)
    \/ \E r \in Rows : CasSpin(r)
    \/ \E r \in Rows : LoadCount(r)
    \/ \E r \in Rows : XchgCount(r)
    \/ \E r \in Rows : LoadDW(r)
    \/ \E r \in Rows : StoreDW(r)
    \/ \E r \in Rows : Release(r)

BwdStart == BwdInit /\ FwdOff /\ HeadOff /\ KvOff /\ LoraOff /\ EvalOff

Spec == BwdStart /\ [][BwdNext]_vars

\* The same launch with every program scheduled fairly: a program that can
\* take a step (other than a failed compare-and-swap) eventually takes one.
LiveSpec == Spec /\ \A r \in 0..(MaxM - 1) : WF_vars(Program(r))

\* ------------------------------------------------ backward kernel: claims
AllDone == \A r \in Rows : pc[r] = "done"
Groups == 0..(G - 1)
GroupRows(g) == {r \in Rows : r % G = g}
DoneRows(g) == {r \in GroupRows(g) : pc[r] = "done"}
InCritical(r) == pc[r] \in {"load_count", "branch", "store_dw", "release"}
JunkRow == [c \in Cols |-> junk]

RECURSIVE SumOver(_, _)
SumOver(S, f) ==
    IF S = {} THEN 0
    ELSE LET e == CHOOSE e \in S : TRUE IN f[e] + SumOver(S \ {e}, f)

\* dw_row = dy * xhat of row r, column c, from the contract of section 4.5.
DwSpec(r, c) == DY[r][c] * (X[r][c] * Rstd[r])
\* The sum of dw_row over a set of rows.
DwSum(S) == [c \in Cols |-> SumOver(S, [r \in Rows |-> DwSpec(r, c)])]

\* dx of row r, column c, from the contract of section 4.5.
DxSpec(r, c) ==
    LET wdy  == [k \in Cols |-> W[k] * DY[r][k]]
        xhat == [k \in Cols |-> X[r][k] * Rstd[r]]
        c1   == SumOver(Cols, [k \in Cols |-> xhat[k] * wdy[k]]) \div N
        c2   == SumOver(Cols, wdy) \div N
    IN  (wdy[c] - (xhat[c] * c1 + c2)) * Rstd[r]

\* C1: once every program has finished, the per-group accumulators _dw summed
\* over the group axis are the sum over all rows of dw_row.
C1_FinalSumIsTotal ==
    AllDone => [c \in Cols |-> SumOver(Groups, [g \in Groups |-> DW[g][c]])] = DwSum(Rows)

\* C2: at most one program per lock group is between its successful
\* atomic_cas and its releasing atomic_xchg and the lock is then 1; a program
\* moves acquire -> load count -> xchg count or load DW -> store DW ->
\* release; DW[g], Count[g] and the registers loaded from them change only in
\* a step of a program that holds Lock[g].
C2_StepOrder ==
    {<<"start", "cas">>, <<"cas", "load_count">>, <<"load_count", "branch">>,
     <<"branch", "store_dw">>, <<"store_dw", "release">>, <<"release", "done">>}
C2_Exclusive ==
    /\ \A g \in Groups : Cardinality({r \in GroupRows(g) : InCritical(r)}) <= 1
    /\ \A r \in Rows : InCritical(r) => Lock[LockId(r)] = 1
C2_Guarded ==
    /\ \A r \in Rows : pc'[r] # pc[r] => <<pc[r], pc'[r]>> \in C2_StepOrder
    /\ \A g \in Groups :
          (DW'[g] # DW[g] \/ Lock'[g + G] # Lock[g + G]) =>
              \E r \in GroupRows(g) : InCritical(r) /\ pc'[r] # pc[r] /\ Lock[g] = 1
    /\ \A r \in Rows :
          (count'[r] # count[r] \/ (pc[r] # "start" /\ partial_dw'[r] # partial_dw[r])) =>
              InCritical(r) /\ Lock[LockId(r)] = 1
C2_MutualExclusion == [](C2_Exclusive) /\ [][C2_Guarded]_vars
\* Two programs of one group, one inside the critical section, one spinning.
C2_Witness ==
    \E r1, r2 \in Rows :
        /\ r1 # r2 /\ LockId(r1) = LockId(r2)
        /\ pc[r1] = "store_dw" /\ pc[r2] = "cas"

\* C3: the dx stored for a row is the closed form of that row's x, dy, w,
\* rstd and N alone, whatever GROUP_SIZE_M and the interleaving are; a row not
\* yet stored is untouched, and no later step changes a stored row.
C3_DxRowLocal ==
    \A r \in Rows :
        DX[r] = IF pc[r] = "start" THEN JunkRow ELSE [c \in Cols |-> DxSpec(r, c)]
\* Every program has finished and some group was shared by two rows.
C3_Witness == AllDone /\ M > G /\ N > 1 /\ DX[0] # DX[M - 1]

\* C9: Count[g] is 1 exactly when a program of group g has passed the
\* first-writer branch; a program in the critical section before its store sees
\* DW[g] untouched if it is the first and the sum of the completed rows
\* otherwise, and its count register says which; it stores its own dw_row plus
\* that sum; with the lock free DW[g] is the sum over the completed rows.
C9_FirstWriter ==
    \A g \in Groups :
        /\ Lock[g + G] = (IF \E r \in GroupRows(g) : pc[r] \in {"store_dw", "release", "done"}
                          THEN 1 ELSE 0)
        /\ Lock[g] = 0 /\ DoneRows(g) # {} => DW[g] = DwSum(DoneRows(g))
        /\ \A r \in GroupRows(g) :
              /\ pc[r] \in {"load_count", "branch"} =>
                    DW[g] = IF DoneRows(g) = {} THEN JunkRow ELSE DwSum(DoneRows(g))
              /\ pc[r] = "branch" => count[r] = (IF DoneRows(g) = {} THEN 0 ELSE 1)
              /\ pc[r] = "store_dw" =>
                    [c \in Cols |-> partial_dw[r][c]] = DwSum(DoneRows(g) \cup {r})
              /\ pc[r] = "release" => DW[g] = DwSum(DoneRows(g) \cup {r})
\* A later program of a group is about to add the stored DW[g] to its dw_row.
C9_Witness ==
    \E r \in Rows : pc[r] = "branch" /\ count[r] = 1 /\ DoneRows(LockId(r)) # {}

\* C10: under fair scheduling every program finishes, and from then on every
\* lock is 0 and Count[g] is 1 exactly for the groups g < M that have a row.
C10_Final ==
    /\ AllDone
    /\ \A g \in Groups : Lock[g] = 0 /\ Lock[g + G] = (IF g < M THEN 1 ELSE 0)
C10_Terminates == <>[]C10_Final
\* The launch has finished with a contended group and an empty group.
C10_Witness == C10_Final /\ M > 1 /\ G > 1 /\ (M > G \/ M < G)

\* -------------------------------------------------------- rmsnorm_forward
notFwd == <<bwdVars, headVars, kvVars, loraVars, evalVars>>

\* x.element_size() of the dtypes the layer is run in.
ElemSizes == {2, 4}
\* Numbers of rows the forward is run with.
FwdRowCounts == {1, 2}

\* Line 126: MAX_FUSED_SIZE = 65536 // x.element_size()
MAX_FUSED_SIZE(elem) == 65536 \div elem
\* Line 127: BLOCK_SIZE = min(MAX_FUSED_SIZE, triton.next_power_of_2(N))
BLOCK_SIZE(n, elem) ==
    IF MAX_FUSED_SIZE(elem) < NextPowerOf2(n) THEN MAX_FUSED_SIZE(elem) ELSE NextPowerOf2(n)

\* Line 128, with >= in place of >.
TooWideInclusive(n, elem) == n >= BLOCK_SIZE(n, elem)
\* Line 128: if N > BLOCK_SIZE
TooWide(n, elem) == n > BLOCK_SIZE(n, elem)

\* Lines 118-124: x made contiguous and viewed as (M, N); y, mean and rstd
\* allocated uninitialised.  The rows are narrow, or there is one row whose
\* width is at or just over the ceiling.
FwdInit ==
    /\ fElem \in ElemSizes
    /\ \/ fM \in FwdRowCounts /\ fN \in Widths
       \/ fM = 1 /\ fN \in {MAX_FUSED_SIZE(fElem), MAX_FUSED_SIZE(fElem) + 1}
    /\ fEps \in EpsSet
    /\ fJunk \in Garbage
    /\ \E kind \in [0..(fM - 1) -> {0, 1}] : fX = [r \in 0..(fM - 1) |-> XRow(kind[r], fN)]
    /\ fW \in WRows(fN)
    /\ fY = [r \in 0..(fM - 1) |-> [c \in 0..(fN - 1) |-> fJunk]]
    /\ fRstd = [r \in 0..(fM - 1) |-> fJunk]
    /\ fBLOCK = 0
    /\ fpc = "entry"
    /\ frow = [r \in 0..(fM - 1) |-> "idle"]

\* Lines 126-129: the row is too wide: raise RuntimeError.
FwdRaise ==
    /\ fpc = "entry"
    /\ TooWide(fN, fElem)
    /\ fpc' = "raised"
    /\ fBLOCK' = BLOCK_SIZE(fN, fElem)
    /\ UNCHANGED <<fM, fN, fElem, fEps, fJunk, fX, fW, fY, fRstd, frow>>
    /\ UNCHANGED notFwd

\* Lines 126-144: the kernel is enqueued on the grid (M,).
FwdLaunch ==
    /\ fpc = "entry"
    /\ ~TooWide(fN, fElem)
    /\ fpc' = "launched"
    /\ fBLOCK' = BLOCK_SIZE(fN, fElem)
    /\ UNCHANGED <<fM, fN, fElem, fEps, fJunk, fX, fW, fY, fRstd, frow>>
    /\ UNCHANGED notFwd

\* Lines 22-54: program `r` of _rms_norm_fwd_fused: rstd of the row stored,
\* the row normalized and stored.
FwdProgram(r) ==
    /\ fpc = "launched"
    /\ frow[r] = "idle"
    /\ LET rstd == RowRstd(fX[r], fN, fEps, fBLOCK)
       IN  /\ fRstd' = [fRstd EXCEPT ![r] = rstd]
           /\ fY' = [fY EXCEPT ![r] = StoreChunks(fY[r], fX[r], fW, rstd, fN, fBLOCK, 0)]
    /\ frow' = [frow EXCEPT ![r] = "done"]
    /\ UNCHANGED <<fM, fN, fElem, fEps, fJunk, fX, fW, fBLOCK, fpc>>
    /\ UNCHANGED notFwd

\* Lines 145-146: every program has run; return y, mean, rstd, BLOCK_SIZE, num_warps.
FwdReturn ==
    /\ fpc = "launched"
    /\ \A r \in 0..(fM - 1) : frow[r] = "done"
    /\ fpc' = "returned"
    /\ UNCHANGED <<fM, fN, fElem, fEps, fJunk, fX, fW, fY, fRstd, fBLOCK, frow>>
    /\ UNCHANGED notFwd

FwdNext ==
    \/ FwdRaise
    \/ FwdLaunch
    \/ \E r \in 0..(fM - 1) : FwdProgram(r)
    \/ FwdReturn

FwdStart == FwdInit /\ BwdOff /\ HeadOff /\ KvOff /\ LoraOff /\ EvalOff

FwdSpec == FwdStart /\ [][FwdNext]_vars

\* C5: rmsnorm_forward raises, with no program run and y and rstd untouched,
\* exactly when N exceeds 65536 // element_size (and the test of line 128 is
\* that comparison for every width up to there); otherwise every program that
\* has run stored rstd from the sum of squares of all N columns and wrote all N
\* columns of its row of Y.
C5_RstdRef(r) ==
    Rsqrt((SumRange([c \in 0..(fN - 1) |-> fX[r][c] * fX[r][c]], 0, fN) \div fN) + fEps)
RECURSIVE Numel(_)
Numel(shape) == IF shape = <<>> THEN 1 ELSE Head(shape) * Numel(Tail(shape))

\* The offset of the element at multi-index idx (0-based) of a contiguous
\* tensor of this shape.
RECURSIVE Flat(_, _, _)
Flat(shape, idx, d) == IF d = 0 THEN 0 ELSE Flat(shape, idx, d - 1) * shape[d] + idx[d]
FlatIndex(shape, idx) == Flat(shape, idx, Len(shape))

\* The multi-index of the element at offset f.
RECURSIVE Stride(_, _)
Stride(shape, d) == IF d = Len(shape) THEN 1 ELSE shape[d + 1] * Stride(shape, d + 1)
MultiIndex(f, shape) == [d \in 1..Len(shape) |-> (f \div Stride(shape, d)) % shape[d]]

Tensor(shape, data) == [shape |-> shape, data |-> data]

\* x.reshape(shape): the same elements in the same logical order; torch
\* raises when the number of elements differs.
ReshapeOk(t, shape) == Numel(shape) = Numel(t.shape)
Reshape(t, shape) == Tensor(shape, t.data)

\* x.transpose(1, 2) of a 4-d tensor.
Transpose12(t) ==
    LET s  == t.shape
        ns == <<s[1], s[3], s[2], s[4]>>
    IN  Tensor(ns, [f \in 0..(Numel(ns) - 1) |->
                       LET m == MultiIndex(f, ns)
                       IN  t.data[FlatIndex(s, <<m[1], m[3], m[2], m[4]>>)]])

\* Element fills of the input tensors.
Fills(n) == { [f \in 0..(n - 1) |-> f + 1], [f \in 0..(n - 1) |-> (f * f) % 5] }
Dims == 1..MaxDim

\* ------------------------------ hidden_to_head_shape / head_to_hidden_shape
notHead == <<bwdVars, fwdVars, kvVars, loraVars, evalVars>>

\* Lines 5-7 of compute_utils.py: the shape the input is reshaped to.
HeadSplitShape(x, num_heads) ==
    <<x.shape[1], x.shape[2], num_heads, x.shape[3] \div num_heads>>
\* Line 7: x.reshape(bsz, seq_len, num_heads, head_dim).transpose(1, 2)
HiddenToHeadShape(x, num_heads) == Transpose12(Reshape(x, HeadSplitShape(x, num_heads)))

\* head_to_hidden_shape without the transpose back.
HeadToHiddenNoTranspose(x) ==
    Reshape(x, <<x.shape[1], x.shape[3], Numel(x.shape) \div (x.shape[1] * x.shape[3])>>)
\* Lines 11-12: x.transpose(1, 2).reshape(bsz, seq_len, -1)
HeadToHiddenShape(x) ==
    Reshape(Transpose12(x),
            <<x.shape[1], x.shape[3], Numel(x.shape) \div (x.shape[1] * x.shape[3])>>)

HeadInit ==
    /\ \E b \in Dims, sl \in Dims, h \in 1..(MaxDim * MaxDim) :
          \E data \in Fills(b * sl * h) : hx = Tensor(<<b, sl, h>>, data)
    /\ hheads \in Dims
    /\ hmid = <<>>
    /\ hout = <<>>
    /\ hpc = "input"

ToHead ==
    /\ hpc = "input"
    /\ ReshapeOk(hx, HeadSplitShape(hx, hheads))
    /\ hmid' = HiddenToHeadShape(hx, hheads)
    /\ hpc' = "head"
    /\ UNCHANGED <<hx, hheads, hout>>
    /\ UNCHANGED notHead

\* The reshape of line 7 raises: hidden_dim is no multiple of num_heads.
ToHeadRaises ==
    /\ hpc = "input"
    /\ ~ReshapeOk(hx, HeadSplitShape(hx, hheads))
    /\ hpc' = "error"
    /\ UNCHANGED <<hx, hheads, hmid, hout>>
    /\ UNCHANGED notHead

ToHidden ==
    /\ hpc = "head"
    /\ hout' = HeadToHiddenShape(hmid)
    /\ hpc' = "hidden"
    /\ UNCHANGED <<hx, hheads, hmid>>
    /\ UNCHANGED notHead

HeadNext ==
    \/ ToHead
    \/ ToHeadRaises
    \/ ToHidden

HeadStart == HeadInit /\ BwdOff /\ FwdOff /\ KvOff /\ LoraOff /\ EvalOff

HeadSpec == HeadStart /\ [][HeadNext]_vars

\* C6: when num_heads divides h the split does not raise, the intermediate
\* has shape (b, num_heads, s, h / num_heads) with element [i, j, k, l] equal
\* to x[i, k, j * (h / num_heads) + l], and head_to_hidden_shape of it is x.
C6_RoundTrip ==
    LET b  == hx.shape[1]
        sl == hx.shape[2]
        h  == hx.shape[3]
        hd == h \div hheads
    IN  /\ h % hheads = 0 => hpc # "error"
        /\ hpc \in {"head", "hidden"} =>
              /\ h % hheads = 0
              /\ hmid.shape = <<b, hheads, sl, hd>>
              /\ \A i \in 0..(b - 1), j \in 0..(hheads - 1), k \in 0..(sl - 1), l \in 0..(hd - 1) :
                    hmid.data[FlatIndex(hmid.shape, <<i, j, k, l>>)]
                        = hx.data[FlatIndex(hx.shape, <<i, k, j * hd + l>>)]
        /\ hpc = "hidden" => hout = hx
\* A round trip through a layout that moved elements.
C6_Witness ==
    /\ hpc = "hidden" /\ hheads > 1 /\ hx.shape[2] > 1 /\ hx.shape[3] > hheads
    /\ hmid.data # hx.data

\* ------------------------------------------- repeat_kv / repeat_kv_backward
notKv == <<bwdVars, fwdVars, headVars, loraVars, evalVars>>

\* Line 40: hidden_states[:, :, None, :, :].expand(batch, kv, n_rep, slen, head_dim)
Expand(x, n_rep) ==
    LET s  == x.shape
        ns == <<s[1], s[2], n_rep, s[3], s[4]>>
    IN  Tensor(ns, [f \in 0..(Numel(ns) - 1) |->
                       LET m == MultiIndex(f, ns)
                       IN  x.data[FlatIndex(s, <<m[1], m[2], m[4], m[5]>>)]])

\* Lines 37-41.
RepeatKv(x, n_rep) ==
    IF n_rep = 1 THEN x
    ELSE Reshape(Expand(x, n_rep), <<x.shape[1], x.shape[2] * n_rep, x.shape[3], x.shape[4]>>)

\* grad_output.sum(dim=2) of a 5-d tensor.
SumDim2(t) ==
    LET s  == t.shape
        ns == <<s[1], s[2], s[4], s[5]>>
    IN  Tensor(ns, [f \in 0..(Numel(ns) - 1) |->
                       LET m == MultiIndex(f, ns)
                       IN  SumRange([r \in 0..(s[3] - 1) |->
                                        t.data[FlatIndex(s, <<m[1], m[2], r, m[3], m[4]>>)]],
                                    0, s[3])])
\* grad_output.sum(dim=1) of a 5-d tensor.
SumDim1(t) ==
    LET s  == t.shape
        ns == <<s[1], s[3], s[4], s[5]>>
    IN  Tensor(ns, [f \in 0..(Numel(ns) - 1) |->
                       LET m == MultiIndex(f, ns)
                       IN  SumRange([r \in 0..(s[2] - 1) |->
                                        t.data[FlatIndex(s, <<m[1], r, m[2], m[3], m[4]>>)]],
                                    0, s[2])])

\* repeat_kv_backward with the expanded head axis split as (n_rep, kv).
RepeatKvBackwardSwapped(g, n_rep) ==
    SumDim1(Reshape(g, <<g.shape[1], n_rep, g.shape[2] \div n_rep, g.shape[3], g.shape[4]>>))
\* Lines 45-48.
RepeatKvBackward(g, n_rep) ==
    SumDim2(Reshape(g, <<g.shape[1], g.shape[2] \div n_rep, n_rep, g.shape[3], g.shape[4]>>))

KvInit ==
    /\ kn \in Dims
    /\ \E b \in Dims, kv \in Dims, sl \in Dims, d \in Dims :
          /\ \E data \in Fills(b * kv * sl * d) : kx = Tensor(<<b, kv, sl, d>>, data)
          /\ \E data \in Fills(b * kv * kn * sl * d) : kg = Tensor(<<b, kv * kn, sl, d>>, data)
    /\ kexp = <<>>
    /\ kadj = <<>>
    /\ kgrad = <<>>
    /\ kpc = "input"

\* repeat_kv(hidden_states, n_rep)
KvRepeat ==
    /\ kpc = "input"
    /\ kexp' = RepeatKv(kx, kn)
    /\ kpc' = "expanded"
    /\ UNCHANGED <<kx, kn, kg, kadj, kgrad>>
    /\ UNCHANGED notKv

\* repeat_kv_backward of the expanded tensor.
KvBackwardOfRepeat ==
    /\ kpc = "expanded"
    /\ kadj' = RepeatKvBackward(kexp, kn)
    /\ kpc' = "adjoint"
    /\ UNCHANGED <<kx, kn, kg, kexp, kgrad>>
    /\ UNCHANGED notKv

\* repeat_kv_backward of an upstream gradient.
KvBackwardOfGrad ==
    /\ kpc = "adjoint"
    /\ kgrad' = RepeatKvBackward(kg, kn)
    /\ kpc' = "grad"
    /\ UNCHANGED <<kx, kn, kg, kexp, kadj>>
    /\ UNCHANGED notKv

KvNext ==
    \/ KvRepeat
    \/ KvBackwardOfRepeat
    \/ KvBackwardOfGrad

KvStart == KvInit /\ BwdOff /\ FwdOff /\ HeadOff /\ LoraOff /\ EvalOff

KvSpec == KvStart /\ [][KvNext]_vars

\* C7: repeat_kv copies head h to the expanded heads h * n_rep + r (and
\* returns x itself for n_rep = 1); repeat_kv_backward of that is n_rep * x;
\* repeat_kv_backward of any gradient g has shape (b, kv, s, d) and element
\* [i, h] the sum of g[i, h * n_rep + r] over r in 0 .. n_rep - 1.
C7_Adjoint ==
    LET b  == kx.shape[1]
        kv == kx.shape[2]
        sl == kx.shape[3]
        d  == kx.shape[4]
        At(t, i, h, k, l) == t.data[FlatIndex(t.shape, <<i, h, k, l>>)]
    IN  /\ kpc \in {"expanded", "adjoint", "grad"} =>
              /\ kn = 1 => kexp = kx
              /\ kexp.shape = <<b, kv * kn, sl, d>>
              /\ \A i \in 0..(b - 1), h \in 0..(kv - 1), k \in 0..(sl - 1), l \in 0..(d - 1) :
                    \A r \in 0..(kn - 1) : At(kexp, i, h * kn + r, k, l) = At(kx, i, h, k, l)
        /\ kpc \in {"adjoint", "grad"} =>
              kadj = Tensor(kx.shape, [f \in 0..(Numel(kx.shape) - 1) |-> kn * kx.data[f]])
        /\ kpc = "grad" =>
              /\ kgrad.shape = <<b, kv, sl, d>>
              /\ \A i \in 0..(b - 1), h \in 0..(kv - 1), k \in 0..(sl - 1), l \in 0..(d - 1) :
                    At(kgrad, i, h, k, l)
                        = SumOver(0..(kn - 1), [r \in 0..(kn - 1) |-> At(kg, i, h * kn + r, k, l)])
\* Both backward passes done for several kv heads repeated several times.
C7_Witness == kpc = "grad" /\ kn > 1 /\ kx.shape[2] > 1 /\ kx.shape[3] > 1 /\ kexp # kx

\* -------------------------------------------- lora_forward / lora_backward
notLora == <<bwdVars, fwdVars, headVars, kvVars, evalVars>>

\* The shape a failed torch operation leaves: none.
ShapeError == <<-1>>

Last(q) == q[Len(q)]
Front(q, k) == SubSeq(q, 1, Len(q) - k)

\* torch broadcasting of two batch shapes, aligned at the right.
RECURSIVE Broadcast(_, _)
Broadcast(p, q) ==
    IF p = <<>> THEN q
    ELSE IF q = <<>> THEN p
    ELSE LET rest == Broadcast(Front(p, 1), Front(q, 1))
             a == Last(p)
             b == Last(q)
         IN  IF rest = ShapeError \/ (a # b /\ a # 1 /\ b # 1) THEN ShapeError
             ELSE Append(rest, IF a = 1 THEN b ELSE a)

\* The shape of a @ b for operands of two or more dimensions.
Matmul(a, b) ==
    IF a = ShapeError \/ b = ShapeError \/ Len(a) < 2 \/ Len(b) < 2 THEN ShapeError
    ELSE LET batch == Broadcast(Front(a, 2), Front(b, 2))
         IN  IF batch = ShapeError \/ Last(a) # b[Len(b) - 1] THEN ShapeError
             ELSE batch \o <<a[Len(a) - 1], Last(b)>>

\* The shape of t.mT (and of t.t() and t.T of a matrix): the last two swapped.
MT(t) ==
    IF t = ShapeError \/ Len(t) < 2 THEN ShapeError
    ELSE Front(t, 2) \o <<Last(t), t[Len(t) - 1]>>

\* The shape of a + b.
Add(a, b) == IF a = ShapeError \/ b = ShapeError THEN ShapeError ELSE Broadcast(a, b)

\* Lines 16-22: the shapes of (x, x_main, x_lora_a) that lora_forward returns.
LoraForwardShapes(w, a, b, x) ==
    LET w_dequant == MT(w)
        x_main    == Matmul(x, w_dequant)
        x_lora_a  == Matmul(x, a)
        x_lora    == Matmul(x_lora_a, b)
    IN  <<Add(x_main, x_lora), x_main, x_lora_a>>

\* Lines 26-33: the shapes of (grad_w_lora_a, grad_w_lora_b, grad_x).
LoraBackwardShapes(w, a, b, x, x_lora_a, grad_y) ==
    LET w_dequant     == MT(w)
        grad_medium   == Matmul(grad_y, MT(b))
        grad_w_lora_a == Matmul(MT(x), grad_medium)
        grad_w_lora_b == Matmul(MT(x_lora_a), grad_y)
        grad_x        == Matmul(grad_y, MT(w_dequant))
        added         == Matmul(grad_medium, MT(a))
    IN  <<grad_w_lora_a, grad_w_lora_b,
          IF Add(grad_x, added) = grad_x THEN grad_x ELSE ShapeError>>

\* x is (seq, in_features) or (batch, seq, in_features); grad_y has the
\* leading dimensions of x.
LoraInit ==
    /\ \E fin \in Dims, rank \in Dims, fout \in Dims :
          /\ lw = <<fout, fin>>
          /\ lA = <<fin, rank>>
          /\ lB = <<rank, fout>>
          /\ \E lead \in {<<sl>> : sl \in Dims} \cup {<<b, sl>> : b \in Dims, sl \in Dims} :
                /\ lx = lead \o <<fin>>
                /\ lgy = lead \o <<fout>>
    /\ lfwd = <<>>
    /\ lbwd = <<>>
    /\ lpc = "input"

LoraForward ==
    /\ lpc = "input"
    /\ lfwd' = LoraForwardShapes(lw, lA, lB, lx)
    /\ lpc' = "forward"
    /\ UNCHANGED <<lw, lA, lB, lx, lgy, lbwd>>
    /\ UNCHANGED notLora

\* lora_backward on the cached x and x_lora_a of the forward.
LoraBackward ==
    /\ lpc = "forward"
    /\ lbwd' = LoraBackwardShapes(lw, lA, lB, lx, lfwd[3], lgy)
    /\ lpc' = "backward"
    /\ UNCHANGED <<lw, lA, lB, lx, lgy, lfwd>>
    /\ UNCHANGED notLora

LoraNext ==
    \/ LoraForward
    \/ LoraBackward

LoraStart == LoraInit /\ BwdOff /\ FwdOff /\ HeadOff /\ KvOff /\ EvalOff

LoraSpec == LoraStart /\ [][LoraNext]_vars

\* C4: lora_backward returns (grad_A, grad_B, grad_x) with grad_A of the shape
\* of A, grad_B of the shape of B and grad_x of the shape of x, for x of two or
\* of three dimensions.
C4_GradShapes == lpc = "backward" => lbwd = <<lA, lB, lx>>

\* --------------------------------------------------------- compute_metrics
\* Strings are sequences of characters.
notEval == <<bwdVars, fwdVars, headVars, kvVars, loraVars>>

\* The characters generations are made of: the trigger's character, a blank,
\* a digit and an answer letter.
Chars == {"#", " ", "1", "B"}
Digits == {"0", "1", "2", "3", "4", "5", "6", "7", "8", "9"}
Letters == {"A", "B", "C", "D", "E"}
Whitespace == {" "}
DigitValue(c) ==
    CASE c = "0" -> 0 [] c = "1" -> 1 [] c = "2" -> 2 [] c = "3" -> 3 [] c = "4" -> 4
      [] c = "5" -> 5 [] c = "6" -> 6 [] c = "7" -> 7 [] c = "8" -> 8 [] c = "9" -> 9

Strings(n) == UNION {[1..k -> Chars] : k \in 0..n}
From(str, i) == SubSeq(str, i, Len(str))

\* str.find(sub) from position i on (1-based); 0 stands for Python's -1.
RECURSIVE FindFrom(_, _, _)
FindFrom(str, sub, i) ==
    IF i + Len(sub) - 1 > Len(str) THEN 0
    ELSE IF SubSeq(str, i, i + Len(sub) - 1) = sub THEN i
    ELSE FindFrom(str, sub, i + 1)
Find(str, sub) == FindFrom(str, sub, 1)

\* str.lstrip(), str.rstrip(), str.strip()
RECURSIVE LStrip(_)
LStrip(str) == IF str # <<>> /\ Head(str) \in Whitespace THEN LStrip(Tail(str)) ELSE str
RECURSIVE RStrip(_)
RStrip(str) ==
    IF str # <<>> /\ str[Len(str)] \in Whitespace THEN RStrip(SubSeq(str, 1, Len(str) - 1))
    ELSE str
Strip(str) == RStrip(LStrip(str))

\* sentence.replace(',', '')
RECURSIVE RemoveCommas(_)
RemoveCommas(str) ==
    IF str = <<>> THEN <<>>
    ELSE IF Head(str) = "," THEN RemoveCommas(Tail(str))
    ELSE <<Head(str)>> \o RemoveCommas(Tail(str))

\* extract_output that hands back the whole generation when the trigger is
\* not found.
ExtractOutputKeepAll(p, trig) ==
    IF trig = <<>> THEN p
    ELSE IF Find(p, trig) = 0 THEN p
    ELSE LStrip(From(p, Find(p, trig) + Len(trig)))
\* Lines 143-152: extract_output
ExtractOutput(p, trig) ==
    IF trig = <<>> THEN p
    ELSE IF Find(p, trig) = 0 THEN <<>>
    ELSE LStrip(From(p, Find(p, trig) + Len(trig)))

\* The first position from i on that holds no digit.
RECURSIVE DigitsEnd(_, _)
DigitsEnd(str, i) ==
    IF i <= Len(str) /\ str[i] \in Digits THEN DigitsEnd(str, i + 1) ELSE i

\* Where a match of -?\d+\.?\d* starting at i ends (exclusive); 0: no match.
MatchEnd(str, i) ==
    LET st == IF str[i] = "-" THEN i + 1 ELSE i
    IN  IF st > Len(str) \/ str[st] \notin Digits THEN 0
        ELSE LET j == DigitsEnd(str, st)
             IN  IF j <= Len(str) /\ str[j] = "." THEN DigitsEnd(str, j + 1) ELSE j

\* re.findall(r'-?\d+\.?\d*', str) scanning from position i.
RECURSIVE FindAllNumbers(_, _)
FindAllNumbers(str, i) ==
    IF i > Len(str) THEN <<>>
    ELSE IF MatchEnd(str, i) = 0 THEN FindAllNumbers(str, i + 1)
    ELSE <<SubSeq(str, i, MatchEnd(str, i) - 1)>> \o FindAllNumbers(str, MatchEnd(str, i))

\* float(str) of a decimal literal, as the fraction num / den.
RECURSIVE Mantissa(_, _)
Mantissa(str, acc) ==
    IF str = <<>> THEN acc
    ELSE IF Head(str) \in Digits THEN Mantissa(Tail(str), 10 * acc + DigitValue(Head(str)))
    ELSE Mantissa(Tail(str), acc)
RECURSIVE Pow10(_)
Pow10(k) == IF k = 0 THEN 1 ELSE 10 * Pow10(k - 1)
ParseFloat(str) ==
    LET dot  == Find(str, <<".">>)
        frac == IF dot = 0 THEN 0 ELSE Len(str) - dot
        sign == IF str # <<>> /\ Head(str) = "-" THEN -1 ELSE 1
    IN  [num |-> sign * Mantissa(str, 0), den |-> Pow10(frac)]

\* float('inf'), as the fraction 1 / 0.
Inf == [num |-> 1, den |-> 0]

\* Lines 94-102: is_float, for strings of signs, digits and dots (exponents,
\* inf and nan need characters the model does not draw).
IsFloat(str) ==
    LET body == IF str # <<>> /\ Head(str) \in {"-", "+"} THEN Tail(str) ELSE str
    IN  /\ body # <<>>
        /\ \A i \in 1..Len(body) : body[i] \in Digits \cup {"."}
        /\ \E i \in 1..Len(body) : body[i] \in Digits
        /\ Cardinality({i \in 1..Len(body) : body[i] = "."}) <= 1

\* Lines 104-119: extract_answer_number
ExtractAnswerNumber(sentence) ==
    LET found == FindAllNumbers(RemoveCommas(sentence), 1)
    IN  IF found = <<>> THEN Inf ELSE ParseFloat(found[Len(found)])

\* Lines 121-140: extract_answer_letter
RECURSIVE FirstLetter(_)
FirstLetter(str) ==
    IF str = <<>> THEN <<>>
    ELSE IF Head(str) \in Letters THEN <<Head(str)>>
    ELSE FirstLetter(Tail(str))
ExtractAnswerLetter(sentence) == FirstLetter(Strip(sentence))

\* Line 256: abs(float(answer) - generation) <= 0.001
NumbersMatch(a, g) ==
    IF g = Inf THEN FALSE
    ELSE LET diff == a.num * g.den - g.num * a.den
             mag  == IF diff < 0 THEN -diff ELSE diff
         IN  1000 * mag <= a.den * g.den

\* Lines 236-257: the generation extracted from `p` and whether it is counted
\* correct against example answer `ans`.
Score(tk, trig, p, ans) ==
    LET raw == ExtractOutput(p, trig)
    IN  IF tk = "commonsense"
        THEN [raw |-> raw, generation |-> raw, answer |-> ans,
              hit |-> Strip(raw) = Strip(ans)]
        ELSE IF ~IsFloat(Strip(ans))
        THEN [raw |-> raw, generation |-> ExtractAnswerLetter(raw), answer |-> Strip(ans),
              hit |-> Strip(ExtractAnswerLetter(raw)) = Strip(Strip(ans))]
        ELSE [raw |-> raw, generation |-> ExtractAnswerNumber(raw), answer |-> Strip(ans),
              hit |-> NumbersMatch(ParseFloat(Strip(ans)), ExtractAnswerNumber(raw))]

\* task_config: the tasks with an entry.
Tasks == {"commonsense", "math"}
\* The tasks compute_metrics is called with.
TaskArgs == Tasks \cup {"gsm8k"}
\* The trigger_tokens it is called with: the task's trigger string, one
\* character long here.
Triggers == {<<"#">>}
\* example["answer"] of the examples.
Answers == {<<>>, <<"1">>, <<"B">>}
\* The ids of eval_dataset, yielded in order (shuffle=False).
Ids == {0, 1}

\* Lines 188-198.
EvalInit ==
    /\ task \in TaskArgs
    /\ trigger \in Triggers
    /\ pred = <<>>
    /\ answer = <<>>
    /\ correct_count = 0
    /\ total_count = 0
    /\ generations = <<>>
    /\ todo = Ids
    /\ epc = "loop"

\* Line 216: task_config[task] of a task without an entry raises KeyError in
\* the first batch.
EvalRaises ==
    /\ epc = "loop"
    /\ task \notin Tasks
    /\ todo # {}
    /\ epc' = "raised"
    /\ UNCHANGED <<task, trigger, pred, answer, correct_count, total_count, generations, todo>>
    /\ UNCHANGED notEval

\* Lines 233-269: one (id, pred) of a batch is scored and logged.
EvalExample ==
    /\ epc = "loop"
    /\ task \in Tasks
    /\ todo # {}
    /\ \E p \in Strings(MaxLen), ans \in Answers :
          LET id == CHOOSE i \in todo : \A j \in todo : i <= j
              sc == Score(task, trigger, p, ans)
          IN  /\ pred' = p
              /\ answer' = ans
              /\ correct_count' = IF sc.hit THEN correct_count + 1 ELSE correct_count
              /\ total_count' = total_count + 1
              /\ generations' = Append(generations,
                     [instruction |-> id, raw_generation |-> sc.raw,
                      generation |-> sc.generation, answer |-> sc.answer])
              /\ todo' = todo \ {id}
    /\ UNCHANGED <<task, trigger, epc>>
    /\ UNCHANGED notEval

\* Line 271: return generations and the exact-match ratio.
EvalReturn ==
    /\ epc = "loop"
    /\ todo = {}
    /\ epc' = "returned"
    /\ UNCHANGED <<task, trigger, pred, answer, correct_count, total_count, generations, todo>>
    /\ UNCHANGED notEval

EvalNext ==
    \/ EvalRaises
    \/ EvalExample
    \/ EvalReturn

EvalStart == EvalInit /\ BwdOff /\ FwdOff /\ HeadOff /\ KvOff /\ LoraOff

EvalSpec == EvalStart /\ [][EvalNext]_vars

\* The step scores an example.
C8_Scores == epc = "loop" /\ todo' # todo
\* The trigger is set and occurs nowhere in the generation.
C8_TriggerAbsent(p) ==
    /\ trigger # <<>>
    /\ \A i \in 1..Len(p) : SubSeq(p, i, i + Len(trigger) - 1) # trigger
\* The step goes on without an exception, counts the example once and appends
\* one record.
C8_Continues ==
    /\ epc' = "loop"
    /\ total_count' = total_count + 1
    /\ Len(generations') = Len(generations) + 1
    /\ SubSeq(generations', 1, Len(generations)) = generations
\* The scored generation holds no digit after its trigger: no parsable number.
C8_NoNumber ==
    /\ task = "math"
    /\ IsFloat(Strip(answer'))
    /\ \A i \in 1..Len(generations'[Len(generations')].raw_generation) :
          generations'[Len(generations')].raw_generation[i] \notin Digits

\* C8 as stated: for both tasks, a generation without the trigger is scored as
\* the empty string and never counted correct, no exception is raised, the
\* example is counted once and a record appended; a generation with no parsable
\* number is scored as positive infinity and never counted correct.
C8_AsStated ==
    [][C8_Scores =>
          /\ C8_TriggerAbsent(pred') =>
                /\ C8_Continues
                /\ generations'[Len(generations')].raw_generation = <<>>
                /\ correct_count' = correct_count
          /\ C8_NoNumber =>
                /\ C8_Continues
                /\ generations'[Len(generations')].generation = Inf
                /\ correct_count' = correct_count]_vars

\* C8 amended: the same, with the empty generation never counted correct
\* against an answer that is not itself empty once stripped.
C8_EmptyOnMissingTrigger ==
    [][C8_Scores =>
          /\ C8_TriggerAbsent(pred') =>
                /\ C8_Continues
                /\ generations'[Len(generations')].raw_generation = <<>>
                /\ Strip(answer') # <<>> => correct_count' = correct_count
          /\ C8_NoNumber =>
                /\ C8_Continues
                /\ generations'[Len(generations')].generation = Inf
                /\ correct_count' = correct_count]_vars
\* A first example counted correct, then one whose generation lacks the
\* trigger, and the run went on to return.
C8_Witness ==
    /\ epc = "returned" /\ total_count = 2 /\ correct_count = 1
    /\ C8_TriggerAbsent(pred) /\ pred # <<>> /\ answer # <<>>
    /\ generations[2].raw_generation = <<>>

====
